---- MODULE Spec2Model ----
(***************************************************************************)
(* Model of the vote-retrieval-and-caching pipeline of ens-vote-tracker    *)
(* (src/index.js): getVotingData, getDelegateSnapshot, getCachedData,      *)
(* cacheData, clearCache and the startup sequence of main.                 *)
(*                                                                         *)
(* A request is a process with a program counter; every await of the       *)
(* source that touches shared state (a cache file) is a step of its own,   *)
(* so that requests interleave exactly where the event loop lets them.     *)
(* fs.writeFile is not atomic: it opens the file with O_TRUNC and writes   *)
(* the data in a later step, so a concurrent reader can see an empty file  *)
(* and two overlapping writers can leave a mixed one.                      *)
(***************************************************************************)
EXTENDS Integers, Sequences, FiniteSets, TLC

\* ------------------------------------------------------------------ bounds

\* Date.now() runs over 0..MaxTime (milliseconds).
MaxTime == 2
\* config.CACHE_DURATION * 1000 is drawn from 1..MaxTTL (milliseconds).
MaxTTL == 1
\* The process is restarted at most MaxRestarts times.
MaxRestarts == 1
\* Requests the server receives in one behaviour, over all its runs.
MaxStarted == 2
\* Requests that can be in flight at once.
MaxInFlight == 2
\* Operations of the environment that fail in one behaviour: RPC calls that
\* throw, file operations that fail with an I/O error.
MaxFaults == 1
\* provider.getBlockNumber() answers a head in DEFAULT_START_BLOCK..MaxHead.
MaxHead == 4

\* The longest vote sequence calculateVoteStats is applied to.
MaxVotes == 3
\* The longest snapshot and the longest vote sequence getNotVotedDelegates is
\* applied to.
MaxSnapshot == 3
MaxVoted == 2
\* The longest roster the snapshot computation is applied to.
MaxRoster == 3

\* The requests, numbered in the order of their arrival.
Requests == 1..MaxStarted

\* ------------------------------------------------------- program constants

\* index.js:26 (21723989 in the source; block numbers are scaled down).
DEFAULT_START_BLOCK == 1
\* index.js:27 (100000 in the source; scaled down with the block numbers).
CHUNK_SIZE == 2
\* index.js:34
DEBUG_MODE == FALSE
\* index.js:101 and 347: formatUnits(x, 18); 18 decimals scaled down to 1.
DECIMALS == 1

UNIT == 10 ^ DECIMALS
\* index.js:37 (1_000_000 tokens in the source; scaled down with the weights).
QUORUM_VOTES == 7
\* index.js:1005 (1000 tokens in the source; scaled down with the powers), in
\* units of 1/UNIT.
SIGNIFICANT_POWER == 40
\* A JavaScript number is a binary floating-point value with a significand of
\* 53 bits (index.js:953, parseFloat); here the significand has PRECISION bits.
PRECISION == 6

\* ------------------------------------------------------------ the chain

\* Proposal ids a request can carry.  Proposal 3 does not exist on chain.
ProposalIds == {1, 2, 3}

\* governorContract.proposalSnapshot(proposalId): 0n for an unknown proposal.
proposalSnapshot(proposalId) ==
  CASE proposalId = 1 -> 2
    [] proposalId = 2 -> 3
    [] OTHER -> 0

\* The VoteCast logs the governor has emitted, in block order.  weight is in
\* the token's smallest unit.
VoteCastLogs ==
  << [blockNumber |-> 1, proposalId |-> 1, voter |-> "0xAA", support |-> 1,
      weight |-> 25, reason |-> "yes"],
     [blockNumber |-> 2, proposalId |-> 2, voter |-> "0xBB", support |-> 0,
      weight |-> 10, reason |-> ""],
     [blockNumber |-> 3, proposalId |-> 1, voter |-> "0xBB", support |-> 2,
      weight |-> 10, reason |-> ""] >>

\* provider.getBlock(n).timestamp, in seconds.
BlockTimestamp(blockNumber) == 100 + blockNumber

\* governorContract.getVotes(account, blockNumber), in the smallest unit.
getVotes(account, blockNumber) ==
  CASE account = "0xAA" -> 25
    [] account = "0xBB" -> 10 + blockNumber
    [] OTHER -> 0

\* ensToken.getPastVotes(account, blockNumber), in the smallest unit.
getPastVotes(account, blockNumber) ==
  CASE account = "0xD1" -> 30
    [] account = "0xD2" -> 50 + blockNumber
    [] account = "0xD3" -> 30
    [] OTHER -> 0

\* provider.lookupAddress(address): the primary name, or null.
lookupAddress(address) ==
  IF address = "0xAA" THEN "aa.eth" ELSE "null"

\* delegates.json: the static roster (votingPower is a decimal number, here
\* in tenths of a token).
DelegatesFile ==
  << [address |-> "0xD1", votingPower |-> 30, delegations |-> 4,
      onChainVotes |-> 7, rank |-> 1],
     [address |-> "0xD2", votingPower |-> 20, delegations |-> 2,
      onChainVotes |-> 3, rank |-> 2] >>

\* ------------------------------------------------------------ pure helpers

Abs(x) == IF x < 0 THEN -x ELSE x

Min(a, b) == IF a < b THEN a ELSE b

Max(a, b) == IF a > b THEN a ELSE b

\* The distance between neighbouring floating-point values at magnitude n.
RECURSIVE Ulp(_)
Ulp(n) == IF n < 2 ^ PRECISION THEN 1 ELSE 2 * Ulp(n \div 2)

\* The floating-point value nearest to x (x counted in units of 1/UNIT), a tie
\* going to the neighbour with the even significand.
Round(x) ==
  LET n == Abs(x)
      q == Ulp(n)
      lower == (n \div q) * q
      rem == n - lower
      nearest == IF 2 * rem < q THEN lower
                 ELSE IF 2 * rem > q THEN lower + q
                 ELSE IF (lower \div q) % 2 = 0 THEN lower ELSE lower + q
  IN IF x < 0 THEN -nearest ELSE nearest

\* a + b and a - b on numbers.
fadd(a, b) == Round(a + b)

fsub(a, b) == Round(a - b)

\* ethers.formatUnits(value, 18): the decimal string, as whole and
\* fractional digits.
formatUnits(value) == [whole |-> value \div UNIT, frac |-> value % UNIT]

\* parseFloat of a decimal string produced by formatUnits: the number, in
\* units of 1/UNIT.
parseFloat(str) == Round(str.whole * UNIT + str.frac)

\* ------------------------------------------------- getDelegateSnapshot

\* One roster delegate's entry (the object returned by the map callback):
\* votingPower is the answer of getPastVotes at the snapshot block.
SnapshotEntry(delegate, votingPower) ==
  [address |-> delegate.address,
   expectedVotingPower |-> delegate.votingPower,
   actualVotingPower |-> parseFloat(formatUnits(votingPower)),
   delegations |-> delegate.delegations,
   onChainVotes |-> delegate.onChainVotes,
   rank |-> delegate.rank,
   hasVotingPowerChanged |->
     \* Math.abs(expected - actual) > 0.1, with powers in units of 1/UNIT
     Abs(delegate.votingPower - parseFloat(formatUnits(votingPower))) * 10 > UNIT]

\* snapshot.filter((d) => d !== null): the entries of the delegates whose
\* getPastVotes call did not fail, in roster order.
RECURSIVE QueriedEntries(_, _, _)
QueriedEntries(delegates, snapshotBlock, failed) ==
  IF delegates = << >> THEN << >>
  ELSE LET d == Head(delegates)
           rest == QueriedEntries(Tail(delegates), snapshotBlock, failed)
       IN IF d.address \in failed THEN rest
          ELSE << SnapshotEntry(d, getPastVotes(d.address, snapshotBlock)) >> \o rest

\* Mutant of InsertByPower: an entry goes before the entries of equal power,
\* as in a sort that is not stable.
RECURSIVE InsertByPower_Unstable(_, _)
InsertByPower_Unstable(e, sorted) ==
  IF sorted = << >> THEN << e >>
  ELSE IF Head(sorted).actualVotingPower > e.actualVotingPower
       THEN << Head(sorted) >> \o InsertByPower_Unstable(e, Tail(sorted))
       ELSE << e >> \o sorted

\* Where a stable sort with comparator b.actualVotingPower - a.actualVotingPower
\* places e in an already sorted sequence: after every entry that is not
\* smaller.
RECURSIVE InsertByPower(_, _)
InsertByPower(e, sorted) ==
  IF sorted = << >> THEN << e >>
  ELSE IF Head(sorted).actualVotingPower >= e.actualVotingPower
       THEN << Head(sorted) >> \o InsertByPower(e, Tail(sorted))
       ELSE << e >> \o sorted

\* .sort((a, b) => b.actualVotingPower - a.actualVotingPower), stable.
RECURSIVE SortByPower(_, _)
SortByPower(entries, sorted) ==
  IF entries = << >> THEN sorted
  ELSE SortByPower(Tail(entries), InsertByPower(Head(entries), sorted))

\* validSnapshot.map((delegate, index) => ({...delegate, currentRank, ...})).
snapshotWithRanks(validSnapshot) ==
  [index \in 1..Len(validSnapshot) |->
     LET delegate == validSnapshot[index]
     IN [address |-> delegate.address,
         expectedVotingPower |-> delegate.expectedVotingPower,
         actualVotingPower |-> delegate.actualVotingPower,
         delegations |-> delegate.delegations,
         onChainVotes |-> delegate.onChainVotes,
         rank |-> delegate.rank,
         hasVotingPowerChanged |-> delegate.hasVotingPowerChanged,
         currentRank |-> index,
         rankChange |-> delegate.rank - index,
         votingPowerChange |->
           delegate.actualVotingPower - delegate.expectedVotingPower]]

\* Mutant of computeSnapshot: one failed query empties the whole snapshot.
computeSnapshot_AllOrNothing(delegates, snapshotBlock, failed) ==
  IF failed # {} THEN << >>
  ELSE snapshotWithRanks(
         SortByPower(QueriedEntries(delegates, snapshotBlock, failed), << >>))

\* The snapshot getDelegateSnapshot computes on a miss of the snapshot file,
\* from the roster it loaded and the set of delegates whose query failed.
computeSnapshot(delegates, snapshotBlock, failed) ==
  snapshotWithRanks(
    SortByPower(QueriedEntries(delegates, snapshotBlock, failed), << >>))

\* ------------------------------------------------------- getVotingData

\* The chunk a loop iteration requests: [fromBlock, toBlock].
toBlock(fromBlock, currentBlock) == Min(fromBlock + CHUNK_SIZE - 1, currentBlock)

\* provider.getLogs(filter): the VoteCast logs of every proposal in the range.
RECURSIVE getLogs(_, _, _)
getLogs(logs, from, to) ==
  IF logs = << >> THEN << >>
  ELSE IF Head(logs).blockNumber >= from /\ Head(logs).blockNumber <= to
       THEN << Head(logs) >> \o getLogs(Tail(logs), from, to)
       ELSE getLogs(Tail(logs), from, to)

\* Mutant of matchingEvents: every log of the chunk is kept.
matchingEvents_All(events, proposalId) == events

\* events.filter(parsed.args.proposalId.toString() === proposalId.toString()).
RECURSIVE matchingEvents(_, _)
matchingEvents(events, proposalId) ==
  IF events = << >> THEN << >>
  ELSE IF Head(events).proposalId = proposalId
       THEN << Head(events) >> \o matchingEvents(Tail(events), proposalId)
       ELSE matchingEvents(Tail(events), proposalId)

\* resolveENSName: the HTML string it returns, as the two values interpolated
\* into it (the name span is left out when there is no name or when
\* lookupAddress threw: ensFailed).
resolveENSName(address, ensFailed) ==
  IF ensFailed \/ lookupAddress(address) = "null"
  THEN [ensName |-> "null", address |-> address]
  ELSE [ensName |-> lookupAddress(address), address |-> address]

\* The vote field of a record.
voteOf(support) ==
  IF support = 0 THEN "Against" ELSE IF support = 1 THEN "For" ELSE "Abstain"

\* The record the enrichment callback returns for one event.  timestamp is
\* the instant handed to new Date, in milliseconds; its rendering by
\* toLocaleString is not modelled.
enrich(event, snapshotBlock, ensFailed) ==
  [delegate |-> resolveENSName(event.voter, ensFailed),
   vote |-> voteOf(event.support),
   votingPower |-> formatUnits(getVotes(event.voter, snapshotBlock)),
   weight |-> formatUnits(event.weight),
   timestamp |-> BlockTimestamp(event.blockNumber) * 1000,
   reason |-> event.reason]

\* const result = {...}
buildResult(votes, delegatesAtSnapshot, snapshotBlock) ==
  [votes |-> votes,
   delegateSnapshot |-> delegatesAtSnapshot,
   snapshotBlock |-> snapshotBlock,
   snapshotStats |->
     [totalDelegates |-> Len(delegatesAtSnapshot),
      significantChanges |->
        Cardinality({i \in 1..Len(delegatesAtSnapshot) :
                       delegatesAtSnapshot[i].hasVotingPowerChanged}),
      topDelegatesByPower |->
        SubSeq(delegatesAtSnapshot, 1, Min(10, Len(delegatesAtSnapshot)))]]

\* ------------------------------------------------------------ cache files

\* What a path of the cache directory holds: no file, a file that open(O_TRUNC)
\* has emptied, a file holding the bytes of two overlapping writes, or a file
\* holding one complete JSON document.  epoch is a history field: the run of
\* the process that wrote the document.
Absent == [kind |-> "absent"]

Empty == [kind |-> "empty"]

Corrupt == [kind |-> "corrupt"]

Json(content, writtenIn) == [kind |-> "json", content |-> content, epoch |-> writtenIn]

\* fs.readFile followed by JSON.parse.  ioError: the read fails with a code
\* other than ENOENT (a permission failure).
readJson(file, ioError) ==
  CASE ioError -> [status |-> "EACCES"]
    [] file.kind = "absent" -> [status |-> "ENOENT"]
    [] file.kind = "json" -> [status |-> "ok", content |-> file.content]
    [] OTHER -> [status |-> "SyntaxError"]

\* fs.writeFile, first half: open(path, "w") creates or empties the file.
openTruncate(file) == Empty

\* fs.writeFile, second half: the bytes of json are written at offset 0 of the
\* file the writer opened.  If another writer has written since this one
\* emptied the file, and its bytes reach beyond the ones written now (longer),
\* that tail stays and the file is no JSON document.
writeBytes(file, json, longer) ==
  IF file.kind \in {"json", "corrupt"} /\ longer THEN Corrupt ELSE json

\* Whether the bytes a file holds can reach beyond a document written over
\* them: not when the file is empty, and not when it holds a document of the
\* same length (sameLength).
Longer(file, sameLength) ==
  IF file.kind = "corrupt" \/ (file.kind = "json" /\ ~sameLength)
  THEN BOOLEAN ELSE {FALSE}

\* ------------------------------------------------------------------ state

VARIABLES
  now,            \* Date.now()
  ttlMs,          \* config.CACHE_DURATION * 1000
  headBlock,      \* the chain's head block
  epoch,          \* history: how often the process has been started again
  voteFile,       \* CACHE_DIR/proposal-<id>.json, per proposal id
  snapshotFile,   \* CACHE_DIR/snapshot-<id>.json, per proposal id
  req,            \* the requests in flight: locals of getVotingData
  firstSnapshot,  \* history: the first snapshot stored per proposal id
  lastWrite,      \* history: the request that wrote the vote file last, per id
  started,        \* history: the requests received so far
  faults,         \* history: the operations that have failed so far
  handler,        \* the locals of the route handler of app.get("/")
  call            \* an application of calculateVoteStats or getNotVotedDelegates

vars ==
  << now, ttlMs, headBlock, epoch, voteFile, snapshotFile, req, firstSnapshot,
     lastWrite, started, faults, handler, call >>

\* The route handler before a request has arrived.  calls is a history field:
\* the provider calls the handler itself has issued, with their endpoint.
Undefined == "undefined"

IdleHandler ==
  [pc |-> "idle",
   query |-> [proposal |-> Undefined, rpc |-> Undefined, view |-> Undefined],
   proposalId |-> 0, rpcUrl |-> Undefined, rpcStatus |-> FALSE,
   viewFilter |-> Undefined, calls |-> {}, status |-> 0, error |-> "none"]

\* No function has been applied.
NoCall == [fn |-> "none"]

NoResult == [votes |-> << >>, delegateSnapshot |-> << >>, snapshotBlock |-> 0,
             snapshotStats |-> [totalDelegates |-> 0, significantChanges |-> 0,
                                topDelegatesByPower |-> << >>]]

\* A request slot nobody uses.  The fields from ops on are history fields: the
\* operations the request has issued, the chunks whose fetch failed, where
\* its result came from, the epochs of the cache documents it was answered
\* from, what its read of the vote file found and how long after the expiry
\* time of the document (Date.now() - (timestamp + TTL)), what its read of
\* the snapshot file found, the step that threw, the addresses of the roster
\* the snapshot computation loaded and those whose voting-power query failed,
\* what the calls of each event's enrichment did, and the chunks the scan has
\* requested, in the order of the requests.
Idle ==
  [pc |-> "idle", proposalId |-> 0, snapshotBlock |-> 0,
   delegatesAtSnapshot |-> << >>, currentBlock |-> 0, fromBlock |-> 0,
   allEvents |-> << >>, result |-> NoResult, timestamp |-> 0,
   error |-> "none",
   ops |-> {}, failedChunks |-> {}, source |-> "none", served |-> {},
   cacheRead |-> [status |-> "none", margin |-> 0],
   snapshotRead |-> "none", failedAt |-> "none",
   roster |-> {}, failedDelegates |-> {}, enriched |-> << >>, chunks |-> << >>]

Init ==
  /\ now = 0
  /\ ttlMs \in 1..MaxTTL
  /\ headBlock \in DEFAULT_START_BLOCK..MaxHead
  /\ epoch = 0
  /\ voteFile = [p \in ProposalIds |-> Absent]
  /\ snapshotFile = [p \in ProposalIds |-> Absent]
  /\ req = [r \in Requests |-> Idle]
  /\ firstSnapshot = [p \in ProposalIds |-> [stored |-> FALSE, snapshot |-> << >>]]
  /\ lastWrite = [p \in ProposalIds |-> 0]
  /\ started = 0
  /\ faults = 0
  /\ handler = IdleHandler
  /\ call = NoCall

\* The request's locals after a throw that reaches getVotingData's caller.
Thrown(locals, error) ==
  [locals EXCEPT !.pc = "failed", !.error = error, !.failedAt = locals.pc]

\* The request's locals after issuing operation op.
Issued(locals, op) == [locals EXCEPT !.ops = @ \cup {op}]

\* n more operations of the environment fail in this step.
Fail(n) == faults + n <= MaxFaults /\ faults' = faults + n

InFlight(r) == req[r].pc \notin {"idle", "done", "failed", "gone"}

\* ------------------------------------------------------------ getCachedData

\* Mutants of isExpired: the comparison turned around; the boundary counted
\* as expired; the duration converted to milliseconds twice.
isExpired_Inverted(parsed, dateNow) == parsed.timestamp + ttlMs > dateNow

isExpired_Inclusive(parsed, dateNow) == parsed.timestamp + ttlMs <= dateNow

isExpired_Twice(parsed, dateNow) == parsed.timestamp + ttlMs * 1000 < dateNow

\* if (parsed.timestamp + config.CACHE_DURATION * 1000 < Date.now())
isExpired(parsed, dateNow) == parsed.timestamp + ttlMs < dateNow

\* getCachedData: what it returns or throws for the file it finds.
getCachedData(file, dateNow, ioError) ==
  LET read == readJson(file, ioError)
  IN CASE read.status = "ENOENT" -> [kind |-> "null"]
       [] read.status = "ok" ->
            IF isExpired(read.content, dateNow) THEN [kind |-> "null"]
            ELSE [kind |-> "data", data |-> read.content.data]
       [] OTHER -> [kind |-> "throw", error |-> read.status]

\* cacheData: the cacheObject it serialises.
cacheObject(data, dateNow) == [timestamp |-> dateNow, data |-> data]


\* ------------------------------------------------------------------ actions

\* app.get("/") calls getVotingData(proposalId): request number r arrives.
Request(r, proposalId) ==
  /\ r = started + 1
  /\ started < MaxStarted
  /\ Cardinality({q \in Requests : InFlight(q)}) < MaxInFlight
  /\ started' = started + 1
  /\ req' = [req EXCEPT ![r] =
               [Idle EXCEPT !.pc = "getCachedData", !.proposalId = proposalId]]
  /\ UNCHANGED << handler, call, faults, now, ttlMs, headBlock, epoch, voteFile, snapshotFile,
                  firstSnapshot, lastWrite >>

\* What the read of the vote file found, for the history field cacheRead.
CacheRead(file, dateNow, ioError) ==
  LET read == readJson(file, ioError)
  IN [status |-> read.status,
      margin |-> IF read.status = "ok"
                 THEN dateNow - (read.content.timestamp + ttlMs) ELSE 0]

\* getVotingData, lines 251-257: the request's locals after the cache check.
afterCacheCheck(locals, file, dateNow, ioError) ==
  LET cached == IF DEBUG_MODE THEN [kind |-> "null"]
                ELSE getCachedData(file, dateNow, ioError)
      checked == [locals EXCEPT !.cacheRead = CacheRead(file, dateNow, ioError)]
  IN CASE cached.kind = "data" ->
            [checked EXCEPT !.pc = "done", !.result = cached.data,
                            !.source = "cache", !.served = {file.epoch}]
       [] cached.kind = "null" -> [checked EXCEPT !.pc = "proposalSnapshot"]
       [] OTHER -> Thrown(checked, cached.error)

\* Mutant of GetCachedData: a document found expired is unlinked.
GetCachedData_Evicts(r) ==
  /\ req[r].pc = "getCachedData"
  /\ \E ioError \in BOOLEAN :
       /\ Fail(IF ioError THEN 1 ELSE 0)
       /\ LET p == req[r].proposalId
              read == readJson(voteFile[p], ioError)
          IN /\ req' = [req EXCEPT ![r] = afterCacheCheck(@, voteFile[p], now, ioError)]
             /\ voteFile' =
                  IF read.status = "ok" /\ isExpired(read.content, now)
                  THEN [voteFile EXCEPT ![p] = Absent]
                  ELSE voteFile
  /\ UNCHANGED << handler, call, started, now, ttlMs, headBlock, epoch, snapshotFile,
                  firstSnapshot, lastWrite >>

GetCachedData(r) ==
  /\ req[r].pc = "getCachedData"
  /\ \E ioError \in BOOLEAN :
       /\ Fail(IF ioError THEN 1 ELSE 0)
       /\ req' = [req EXCEPT ![r] =
            afterCacheCheck(@, voteFile[req[r].proposalId], now, ioError)]
  /\ UNCHANGED << handler, call, started, now, ttlMs, headBlock, epoch, voteFile, snapshotFile,
                  firstSnapshot, lastWrite >>

\* Mutant of isUnset: the bigint compared with the number 0, which === never
\* finds equal.
isUnset_Number(snapshotBlock) == FALSE

\* if (snapshotBlock === 0n) throw
isUnset(snapshotBlock) == snapshotBlock = 0

\* getVotingData, lines 266-270: the request's locals after the snapshot block
\* is read.
afterProposalSnapshot(locals, rpcError) ==
  LET snapshotBlock == proposalSnapshot(locals.proposalId)
      called == Issued(locals, "proposalSnapshot")
  IN IF rpcError THEN Thrown(called, "RpcError")
     ELSE IF isUnset(snapshotBlock) THEN Thrown(called, "ProposalNotFound")
     ELSE [called EXCEPT !.pc = "readSnapshotFile", !.snapshotBlock = snapshotBlock]

ProposalSnapshot(r) ==
  /\ req[r].pc = "proposalSnapshot"
  /\ \E rpcError \in BOOLEAN :
       /\ Fail(IF rpcError THEN 1 ELSE 0)
       /\ req' = [req EXCEPT ![r] = afterProposalSnapshot(@, rpcError)]
  /\ UNCHANGED << handler, call, started, now, ttlMs, headBlock, epoch, voteFile, snapshotFile,
                  firstSnapshot, lastWrite >>

\* Mutant of afterSnapshotRead: a stored snapshot is read and then computed
\* again.
afterSnapshotRead_Rebuild(locals, file, ioError) ==
  LET read == readJson(file, ioError)
      called == [Issued(locals, "readSnapshotFile") EXCEPT !.snapshotRead = read.status]
  IN IF read.status \in {"ok", "ENOENT"}
     THEN [called EXCEPT !.pc = "computeSnapshot"]
     ELSE Thrown(called, read.status)

\* getDelegateSnapshot, lines 70-77: the request's locals after the read of
\* the snapshot file.  A stored snapshot is returned as it is, whatever its
\* age; only ENOENT leads on to the computation.
afterSnapshotRead(locals, file, ioError) ==
  LET read == readJson(file, ioError)
      called == [Issued(locals, "readSnapshotFile") EXCEPT !.snapshotRead = read.status]
  IN CASE read.status = "ok" ->
            [called EXCEPT !.pc = "getBlockNumber",
                           !.delegatesAtSnapshot = read.content,
                           !.served = @ \cup {file.epoch}]
       [] read.status = "ENOENT" -> [called EXCEPT !.pc = "computeSnapshot"]
       [] OTHER -> Thrown(called, read.status)

ReadSnapshotFile(r) ==
  /\ req[r].pc = "readSnapshotFile"
  /\ \E ioError \in BOOLEAN :
       /\ Fail(IF ioError THEN 1 ELSE 0)
       /\ req' = [req EXCEPT ![r] =
            afterSnapshotRead(@, snapshotFile[req[r].proposalId], ioError)]
  /\ UNCHANGED << handler, call, started, now, ttlMs, headBlock, epoch, voteFile, snapshotFile,
                  firstSnapshot, lastWrite >>

\* getDelegateSnapshot, lines 83-153: loadDelegates (an unreadable roster is
\* the empty roster), one getPastVotes per delegate (failed: the delegates
\* whose call throws), the sort and the ranks.
ComputeSnapshot(r) ==
  /\ req[r].pc = "computeSnapshot"
  /\ \E loaded \in BOOLEAN :
       LET delegates == IF loaded THEN DelegatesFile ELSE << >>
           addresses == {delegates[i].address : i \in 1..Len(delegates)}
       IN \E failed \in SUBSET addresses :
            /\ Fail(Cardinality(failed) + IF loaded THEN 0 ELSE 1)
            /\ req' = [req EXCEPT ![r] =
              [@ EXCEPT !.pc = "openSnapshotFile",
                        !.roster = addresses,
                        !.failedDelegates = failed,
                        !.ops = @ \cup {"loadDelegates"} \cup
                                IF delegates = << >> THEN {} ELSE {"getPastVotes"},
                        !.delegatesAtSnapshot =
                          computeSnapshot(delegates, req[r].snapshotBlock, failed)]]
  /\ UNCHANGED << handler, call, started, now, ttlMs, headBlock, epoch, voteFile, snapshotFile,
                  firstSnapshot, lastWrite >>

\* getDelegateSnapshot, line 156: fs.writeFile opens the snapshot file.
OpenSnapshotFile(r) ==
  /\ req[r].pc = "openSnapshotFile"
  /\ \E ioError \in BOOLEAN :
       /\ Fail(IF ioError THEN 1 ELSE 0)
       /\ LET p == req[r].proposalId
              called == Issued(req[r], "writeSnapshotFile")
          IN IF ioError
             THEN /\ req' = [req EXCEPT ![r] = Thrown(called, "EACCES")]
                  /\ UNCHANGED snapshotFile
             ELSE /\ req' = [req EXCEPT ![r] = [called EXCEPT !.pc = "writeSnapshotFile"]]
                  /\ snapshotFile' = [snapshotFile EXCEPT ![p] = openTruncate(@)]
  /\ UNCHANGED << handler, call, started, now, ttlMs, headBlock, epoch, voteFile, firstSnapshot, lastWrite >>

\* getDelegateSnapshot, lines 156-162: fs.writeFile writes the snapshot, and
\* getDelegateSnapshot returns it.
WriteSnapshotFile(r) ==
  /\ req[r].pc = "writeSnapshotFile"
  /\ LET p == req[r].proposalId
         json == Json(req[r].delegatesAtSnapshot, epoch)
         file == snapshotFile[p]
     IN \E longer \in Longer(file, file.kind = "json" /\ file.content = json.content) :
          LET written == writeBytes(file, json, longer)
          IN /\ snapshotFile' = [snapshotFile EXCEPT ![p] = written]
             /\ firstSnapshot' =
                  IF written.kind = "json" /\ ~firstSnapshot[p].stored
                  THEN [firstSnapshot EXCEPT ![p] =
                          [stored |-> TRUE, snapshot |-> json.content]]
                  ELSE firstSnapshot
  /\ req' = [req EXCEPT ![r].pc = "getBlockNumber"]
  /\ UNCHANGED << handler, call, faults, started, now, ttlMs, headBlock, epoch, voteFile, lastWrite >>

\* getVotingData, lines 283-285: the head block and the start of the scan.
GetBlockNumber(r) ==
  /\ req[r].pc = "getBlockNumber"
  /\ \E rpcError \in BOOLEAN :
       /\ Fail(IF rpcError THEN 1 ELSE 0)
       /\ LET called == Issued(req[r], "getBlockNumber")
          IN req' = [req EXCEPT ![r] =
               IF rpcError THEN Thrown(called, "RpcError")
               ELSE [called EXCEPT
                       !.currentBlock = headBlock,
                       !.fromBlock = DEFAULT_START_BLOCK,
                       !.pc = IF DEFAULT_START_BLOCK < headBlock
                              THEN "getLogs" ELSE "enrich"]]
  /\ UNCHANGED << handler, call, started, now, ttlMs, headBlock, epoch, voteFile, snapshotFile,
                  firstSnapshot, lastWrite >>

\* Mutants of afterChunk: a failed fetch is thrown on to the caller; a failed
\* fetch ends the scan.
afterChunk_Throws(locals, rpcError) ==
  LET from == locals.fromBlock
      events == getLogs(VoteCastLogs, from, toBlock(from, locals.currentBlock))
      called == [Issued(locals, "getLogs") EXCEPT !.chunks =
                  Append(@, [fromBlock |-> from,
                             toBlock |-> toBlock(from, locals.currentBlock)])]
  IN IF rpcError THEN Thrown(called, "RpcError")
     ELSE [called EXCEPT
             !.allEvents = @ \o matchingEvents(events, locals.proposalId),
             !.fromBlock = from + CHUNK_SIZE,
             !.pc = IF from + CHUNK_SIZE < locals.currentBlock
                    THEN "getLogs" ELSE "enrich"]

afterChunk_Breaks(locals, rpcError) ==
  LET from == locals.fromBlock
      events == getLogs(VoteCastLogs, from, toBlock(from, locals.currentBlock))
      called == [Issued(locals, "getLogs") EXCEPT !.chunks =
                  Append(@, [fromBlock |-> from,
                             toBlock |-> toBlock(from, locals.currentBlock)])]
  IN [called EXCEPT
        !.allEvents = IF rpcError THEN @
                      ELSE @ \o matchingEvents(events, locals.proposalId),
        !.failedChunks = IF rpcError THEN @ \cup {from} ELSE @,
        !.fromBlock = from + CHUNK_SIZE,
        !.pc = IF from + CHUNK_SIZE < locals.currentBlock /\ ~rpcError
               THEN "getLogs" ELSE "enrich"]

\* Mutant of afterChunk: a chunk whose fetch failed is requested again.
afterChunk_Retries(locals, rpcError) ==
  LET from == locals.fromBlock
      to == toBlock(from, locals.currentBlock)
      events == getLogs(VoteCastLogs, from, to)
      called == [Issued(locals, "getLogs") EXCEPT !.chunks =
                  Append(@, [fromBlock |-> from, toBlock |-> to])]
  IN IF rpcError THEN [called EXCEPT !.failedChunks = @ \cup {from}]
     ELSE [called EXCEPT
             !.allEvents = @ \o matchingEvents(events, locals.proposalId),
             !.fromBlock = from + CHUNK_SIZE,
             !.pc = IF from + CHUNK_SIZE < locals.currentBlock
                    THEN "getLogs" ELSE "enrich"]

\* getVotingData, lines 287-317: the request's locals after one iteration of
\* the scan loop.  rpcError: provider.getLogs threw, which the catch block
\* only logs.
afterChunk(locals, rpcError) ==
  LET from == locals.fromBlock
      to == toBlock(from, locals.currentBlock)
      events == getLogs(VoteCastLogs, from, to)
      called == [Issued(locals, "getLogs") EXCEPT !.chunks =
                  Append(@, [fromBlock |-> from, toBlock |-> to])]
  IN [called EXCEPT
        !.allEvents = IF rpcError THEN @
                      ELSE @ \o matchingEvents(events, locals.proposalId),
        !.failedChunks = IF rpcError THEN @ \cup {from} ELSE @,
        !.fromBlock = from + CHUNK_SIZE,
        !.pc = IF from + CHUNK_SIZE < locals.currentBlock
               THEN "getLogs" ELSE "enrich"]

GetLogs(r) ==
  /\ req[r].pc = "getLogs"
  /\ \E rpcError \in BOOLEAN :
       /\ Fail(IF rpcError THEN 1 ELSE 0)
       /\ req' = [req EXCEPT ![r] = afterChunk(@, rpcError)]
  /\ UNCHANGED << handler, call, started, now, ttlMs, headBlock, epoch, voteFile, snapshotFile,
                  firstSnapshot, lastWrite >>

\* What the calls of one event's enrichment callback can do.
EnrichOutcomes == {"ok", "lookupAddressFailed", "getBlockFailed", "getVotesFailed"}

\* Mutant of enrichmentRejects: a failed name lookup rejects the callback too.
enrichmentRejects_AnyFailure(outcome) ==
  \E i \in DOMAIN outcome : outcome[i] # "ok"

\* Whether Promise.all over the enrichment callbacks rejects: a callback
\* rejects when its getBlock or its getVotes call throws, neither of which it
\* catches; a failed lookupAddress is caught inside resolveENSName.
enrichmentRejects(outcome) ==
  \E i \in DOMAIN outcome : outcome[i] \in {"getBlockFailed", "getVotesFailed"}

\* getVotingData, lines 319-367: Promise.all over the events (it rejects as
\* soon as one callback rejects; resolveENSName catches its own failure), then
\* the result.
Enrich(r) ==
  /\ req[r].pc = "enrich"
  /\ \E outcome \in [1..Len(req[r].allEvents) -> EnrichOutcomes] :
       /\ Fail(Cardinality({i \in DOMAIN outcome : outcome[i] # "ok"}))
       /\ LET events == req[r].allEvents
              called == [req[r] EXCEPT !.enriched = outcome,
                                       !.ops = @ \cup
                           IF events = << >> THEN {}
                           ELSE {"getBlock", "getVotes", "lookupAddress"}]
              votes == [i \in 1..Len(events) |->
                          enrich(events[i], req[r].snapshotBlock,
                                 outcome[i] = "lookupAddressFailed")]
          IN req' = [req EXCEPT ![r] =
               IF enrichmentRejects(outcome)
               THEN Thrown(called, "RpcError")
               ELSE [called EXCEPT
                       !.result = buildResult(votes, req[r].delegatesAtSnapshot,
                                              req[r].snapshotBlock),
                       !.source = "built",
                       !.pc = IF DEBUG_MODE THEN "done" ELSE "openVoteFile"]]
  /\ UNCHANGED << handler, call, started, now, ttlMs, headBlock, epoch, voteFile, snapshotFile,
                  firstSnapshot, lastWrite >>

\* cacheData, lines 224-229: the cacheObject is built, fs.writeFile opens the
\* vote file.
OpenVoteFile(r) ==
  /\ req[r].pc = "openVoteFile"
  /\ \E ioError \in BOOLEAN :
       /\ Fail(IF ioError THEN 1 ELSE 0)
       /\ LET p == req[r].proposalId
              called == Issued(req[r], "writeVoteFile")
          IN IF ioError
             THEN /\ req' = [req EXCEPT ![r] = Thrown(called, "EACCES")]
                  /\ UNCHANGED voteFile
             ELSE /\ req' = [req EXCEPT ![r] =
                               [called EXCEPT !.pc = "writeVoteFile", !.timestamp = now]]
                  /\ voteFile' = [voteFile EXCEPT ![p] = openTruncate(@)]
  /\ UNCHANGED << handler, call, started, now, ttlMs, headBlock, epoch, snapshotFile, firstSnapshot, lastWrite >>

\* cacheData, lines 229-232, and line 374: fs.writeFile writes the
\* cacheObject, and getVotingData returns the result.
WriteVoteFile(r) ==
  /\ req[r].pc = "writeVoteFile"
  /\ LET p == req[r].proposalId
         json == Json(cacheObject(req[r].result, req[r].timestamp), epoch)
         file == voteFile[p]
     IN \E longer \in Longer(file, file.kind = "json"
                                   /\ file.content.data = json.content.data) :
          /\ voteFile' = [voteFile EXCEPT ![p] = writeBytes(file, json, longer)]
          /\ lastWrite' = [lastWrite EXCEPT ![p] = r]
  /\ req' = [req EXCEPT ![r].pc = "done"]
  /\ UNCHANGED << handler, call, faults, started, now, ttlMs, headBlock, epoch, snapshotFile, firstSnapshot >>

\* Time passes.
Tick ==
  /\ now < MaxTime
  /\ now' = now + 1
  /\ UNCHANGED << handler, call, faults, started, ttlMs, headBlock, epoch, voteFile, snapshotFile, req,
                  firstSnapshot, lastWrite >>

\* The paths of the cache directory that hold a file (fs.readdir).
CacheFiles ==
  {<< "proposal", p >> : p \in {q \in ProposalIds : voteFile[q].kind # "absent"}}
  \cup
  {<< "snapshot", p >> : p \in {q \in ProposalIds : snapshotFile[q].kind # "absent"}}

\* clearCache: the files are unlinked one by one in directory order, which is
\* any order; the first unlink that fails (or a failing readdir) ends the
\* loop in the catch block, which only logs.  So the files unlinked are all of
\* them, or any set of them that is not.
clearCache(files) == SUBSET files

\* The process dies with its requests in flight and is started again: main
\* runs ensureCacheDir and clearCache, then listens.  The requests received
\* so far are gone.
Restart ==
  /\ epoch < MaxRestarts
  /\ epoch' = epoch + 1
  /\ req' = [r \in Requests |->
               IF r <= started THEN [Idle EXCEPT !.pc = "gone"] ELSE Idle]
  /\ \E unlinked \in clearCache(CacheFiles) :
       /\ Fail(IF unlinked = CacheFiles THEN 0 ELSE 1)
       /\ voteFile' = [p \in ProposalIds |->
                         IF << "proposal", p >> \in unlinked THEN Absent
                         ELSE voteFile[p]]
       /\ snapshotFile' = [p \in ProposalIds |->
                             IF << "snapshot", p >> \in unlinked THEN Absent
                             ELSE snapshotFile[p]]
  /\ UNCHANGED << handler, call, started, now, ttlMs, headBlock, firstSnapshot, lastWrite >>

Next ==
  \/ \E r \in Requests, p \in ProposalIds : Request(r, p)
  \/ \E r \in Requests : GetCachedData(r)
  \/ \E r \in Requests : ProposalSnapshot(r)
  \/ \E r \in Requests : ReadSnapshotFile(r)
  \/ \E r \in Requests : ComputeSnapshot(r)
  \/ \E r \in Requests : OpenSnapshotFile(r)
  \/ \E r \in Requests : WriteSnapshotFile(r)
  \/ \E r \in Requests : GetBlockNumber(r)
  \/ \E r \in Requests : GetLogs(r)
  \/ \E r \in Requests : Enrich(r)
  \/ \E r \in Requests : OpenVoteFile(r)
  \/ \E r \in Requests : WriteVoteFile(r)
  \/ Tick
  \/ Restart

Spec == Init /\ [][Next]_vars

\* ------------------------------------------------------- calculateVoteStats

\* The reducer callback: the accumulator after one vote.
statsStep(acc, vote) ==
  LET weight == parseFloat(vote.weight)
      counted == [acc EXCEPT !.totalVotes = @ + 1,
                             !.totalWeight = fadd(@, weight)]
  IN IF vote.vote = "For"
     THEN [counted EXCEPT !.forVotes = fadd(@, weight), !.forCount = @ + 1]
     ELSE IF vote.vote = "Against"
     THEN [counted EXCEPT !.againstVotes = fadd(@, weight), !.againstCount = @ + 1]
     ELSE [counted EXCEPT !.abstainVotes = fadd(@, weight), !.abstainCount = @ + 1]

\* data.votes.reduce(callback, acc), from the first vote to the last.
RECURSIVE reduceStats(_, _)
reduceStats(votes, acc) ==
  IF votes = << >> THEN acc
  ELSE reduceStats(Tail(votes), statsStep(acc, Head(votes)))

\* Mutant of quorumVotesOf: the weight of every vote counts for the quorum.
quorumVotesOf_Total(stats) == stats.totalWeight

\* stats.quorumVotes = stats.forVotes + stats.abstainVotes
quorumVotesOf(stats) == fadd(stats.forVotes, stats.abstainVotes)

\* Mutant of hasReachedQuorumOf: the threshold itself does not reach quorum.
hasReachedQuorumOf_Strict(quorumVotes) == quorumVotes > QUORUM_VOTES * UNIT

\* stats.hasReachedQuorum = stats.quorumVotes >= QUORUM_VOTES
hasReachedQuorumOf(quorumVotes) == quorumVotes >= QUORUM_VOTES * UNIT

\* stats.votesNeededForQuorum = Math.max(0, QUORUM_VOTES - stats.quorumVotes)
votesNeededForQuorumOf(quorumVotes) ==
  Max(0, fsub(QUORUM_VOTES * UNIT, quorumVotes))

calculateVoteStats(data) ==
  LET stats == reduceStats(data.votes,
                 [totalVotes |-> 0, totalWeight |-> 0, forVotes |-> 0,
                  forCount |-> 0, againstVotes |-> 0, againstCount |-> 0,
                  abstainVotes |-> 0, abstainCount |-> 0])
      quorumVotes == quorumVotesOf(stats)
  IN [totalVotes |-> stats.totalVotes, totalWeight |-> stats.totalWeight,
      forVotes |-> stats.forVotes, forCount |-> stats.forCount,
      againstVotes |-> stats.againstVotes, againstCount |-> stats.againstCount,
      abstainVotes |-> stats.abstainVotes, abstainCount |-> stats.abstainCount,
      quorumVotes |-> quorumVotes,
      hasReachedQuorum |-> hasReachedQuorumOf(quorumVotes),
      votesNeededForQuorum |-> votesNeededForQuorumOf(quorumVotes)]

\* ----------------------------------------------------- getNotVotedDelegates

\* String.prototype.toLowerCase on the addresses of the model.
toLowerCase(address) ==
  CASE address = "0xAA" -> "0xaa"
    [] address = "0xBB" -> "0xbb"
    [] address = "0xD1" -> "0xd1"
    [] address = "0xD2" -> "0xd2"
    [] address = "0x5D" -> "0x5d"
    [] OTHER -> address

\* The first substring of a primary name that matches /0x[a-fA-F0-9]{40}/, or
\* "none": a name such as 0x<40 hex digits>.eth holds one.
embeddedAddress(ensName) ==
  CASE ensName = "0xd2.eth" -> "0xd2"
    [] ensName = "0xD1.eth" -> "0xD1"
    [] OTHER -> "none"

\* vote.delegate.match(/0x[a-fA-F0-9]{40}/)[0]: the first match in the string
\* resolveENSName built, in which the name, if any, precedes the address.
firstAddressIn(delegate) ==
  IF delegate.ensName # "null" /\ embeddedAddress(delegate.ensName) # "none"
  THEN embeddedAddress(delegate.ensName)
  ELSE delegate.address

\* new Set(votes.map(...).filter(...))
votedAddresses(votes) ==
  {toLowerCase(firstAddressIn(votes[i].delegate)) : i \in DOMAIN votes}

\* The address the filter excludes (0x552df471a4c7fea11ea8d7a7b0acc6989b902a95),
\* written in lower case.
EXCLUDED_ADDRESS == "0x5d"

\* The filter callback.
isListed(delegate, voted) ==
  LET hasNotVoted == toLowerCase(delegate.address) \notin voted
      hasSignificantPower == delegate.actualVotingPower >= SIGNIFICANT_POWER
      isNotExcluded == toLowerCase(delegate.address) # EXCLUDED_ADDRESS
  IN hasNotVoted /\ hasSignificantPower /\ isNotExcluded

getNotVotedDelegates(delegateSnapshot, votes) ==
  SortByPower(
    SelectSeq(delegateSnapshot,
              LAMBDA delegate : isListed(delegate, votedAddresses(votes))),
    << >>)

\* ------------------------------------- the two functions applied to inputs

\* The weights of the votes calculateVoteStats is applied to, in the smallest
\* unit of the token.
Weights == {1, 6, 64}

\* A vote record as the enrichment builds it.
Vote(delegate, vote, weight) ==
  [delegate |-> delegate, vote |-> vote, votingPower |-> formatUnits(weight),
   weight |-> formatUnits(weight), timestamp |-> 0, reason |-> ""]

StatVotes ==
  {Vote(resolveENSName("0xBB", FALSE), vote, weight) :
     vote \in {"For", "Against", "Abstain"}, weight \in Weights}

\* The voters of the votes getNotVotedDelegates is applied to: a roster
\* delegate without a name, a voter with a name, and a voter whose primary
\* name is the address of another delegate followed by .eth.
Voters ==
  {[ensName |-> "null", address |-> "0xD1"],
   [ensName |-> "aa.eth", address |-> "0xAA"],
   [ensName |-> "0xd2.eth", address |-> "0xBB"]}

\* Snapshot entries, by the two fields getNotVotedDelegates reads.  The
\* addresses are those of the voters and the excluded one, each in a case
\* other than the one the votes and the filter spell it in.
Entries ==
  [address : {"0xd1", "0xD2", "0x5D", "0xbb"},
   actualVotingPower : {SIGNIFICANT_POWER - 10, SIGNIFICANT_POWER, SIGNIFICANT_POWER + 10}]

SeqsUpTo(S, n) == UNION {[1..k -> S] : k \in 0..n}

\* Snapshots hold one entry per address.
Snapshots ==
  {snapshot \in SeqsUpTo(Entries, MaxSnapshot) :
     \A i, j \in DOMAIN snapshot : i # j => snapshot[i].address # snapshot[j].address}

\* parsed.args.support is a uint8: the three values the governor counts, and
\* one that stands for all the others.
Supports == {0, 1, 2, 3}

\* Decoded VoteCast logs of proposal 1 the enrichment callback is applied to.
Events ==
  [blockNumber : {1, 3}, proposalId : {1}, voter : {"0xAA", "0xBB"},
   support : Supports, weight : Weights, reason : {""}]

NoEvent ==
  [blockNumber |-> 0, proposalId |-> 0, voter |-> "none", support |-> 0,
   weight |-> 0, reason |-> ""]

\* The delegates of the rosters the snapshot computation is applied to: those
\* of delegates.json and one whose power at the snapshot block is that of the
\* first.
RosterDelegates ==
  {DelegatesFile[i] : i \in DOMAIN DelegatesFile}
  \cup {[address |-> "0xD3", votingPower |-> 30, delegations |-> 1,
          onChainVotes |-> 0, rank |-> 3]}

\* Rosters hold one delegate per address, in any order.
Rosters ==
  {roster \in SeqsUpTo(RosterDelegates, MaxRoster) :
     \A i, j \in DOMAIN roster : i # j => roster[i].address # roster[j].address}

Calls ==
  {[fn |-> "calculateVoteStats", pc |-> "called", votes |-> votes,
    delegateSnapshot |-> << >>, event |-> NoEvent, delegates |-> << >>,
    failed |-> {}, returned |-> << >>] :
     votes \in SeqsUpTo(StatVotes, MaxVotes)}
  \cup
  {[fn |-> "getNotVotedDelegates", pc |-> "called", votes |-> votes,
    delegateSnapshot |-> snapshot, event |-> NoEvent, delegates |-> << >>,
    failed |-> {}, returned |-> << >>] :
     votes \in SeqsUpTo({Vote(voter, "For", 6) : voter \in Voters}, MaxVoted),
     snapshot \in Snapshots}
  \cup
  {[fn |-> "enrich", pc |-> "called", votes |-> << >>,
    delegateSnapshot |-> << >>, event |-> event, delegates |-> << >>,
    failed |-> {}, returned |-> << >>] :
     event \in Events}
  \cup
  UNION {{[fn |-> "getDelegateSnapshot", pc |-> "called", votes |-> << >>,
           delegateSnapshot |-> << >>, event |-> NoEvent, delegates |-> roster,
           failed |-> failed, returned |-> << >>] :
            failed \in SUBSET {roster[i].address : i \in DOMAIN roster}} :
         roster \in Rosters}

\* The variables of the request pipeline.
pipeline ==
  << now, ttlMs, headBlock, epoch, voteFile, snapshotFile, req, firstSnapshot,
     lastWrite, started, faults >>

PureInit ==
  /\ now = 0
  /\ ttlMs = 1
  /\ headBlock = DEFAULT_START_BLOCK
  /\ epoch = 0
  /\ voteFile = [p \in ProposalIds |-> Absent]
  /\ snapshotFile = [p \in ProposalIds |-> Absent]
  /\ req = [r \in Requests |-> Idle]
  /\ firstSnapshot = [p \in ProposalIds |-> [stored |-> FALSE, snapshot |-> << >>]]
  /\ lastWrite = [p \in ProposalIds |-> 0]
  /\ started = 0
  /\ faults = 0
  /\ handler = IdleHandler
  /\ call \in Calls

ApplyCalculateVoteStats ==
  /\ call.fn = "calculateVoteStats" /\ call.pc = "called"
  /\ call' = [call EXCEPT !.pc = "returned",
                          !.returned = calculateVoteStats([votes |-> call.votes])]
  /\ UNCHANGED << pipeline, handler >>

ApplyGetNotVotedDelegates ==
  /\ call.fn = "getNotVotedDelegates" /\ call.pc = "called"
  /\ call' = [call EXCEPT !.pc = "returned",
                          !.returned = getNotVotedDelegates(call.delegateSnapshot,
                                                            call.votes)]
  /\ UNCHANGED << pipeline, handler >>

\* The enrichment callback of getVotingData applied to one event (no call of
\* it failing), and calculateVoteStats applied to the votes it yields, as the
\* route handler applies it to the result of getVotingData.
ApplyEnrich ==
  /\ call.fn = "enrich" /\ call.pc = "called"
  /\ LET votes == << enrich(call.event, proposalSnapshot(call.event.proposalId), FALSE) >>
     IN call' = [call EXCEPT !.pc = "returned",
                             !.votes = votes,
                             !.returned = calculateVoteStats([votes |-> votes])]
  /\ UNCHANGED << pipeline, handler >>

\* getDelegateSnapshot on a miss of the snapshot file, applied to a roster at
\* the snapshot block of proposal 1, the queries of call.failed failing.
ApplyGetDelegateSnapshot ==
  /\ call.fn = "getDelegateSnapshot" /\ call.pc = "called"
  /\ call' = [call EXCEPT !.pc = "returned",
                          !.returned = computeSnapshot(call.delegates,
                                                       proposalSnapshot(1), call.failed)]
  /\ UNCHANGED << pipeline, handler >>

PureNext ==
  \/ ApplyCalculateVoteStats
  \/ ApplyGetNotVotedDelegates
  \/ ApplyEnrich
  \/ ApplyGetDelegateSnapshot

PureSpec == PureInit /\ [][PureNext]_vars

\* ------------------------------------------------------- the route handler

\* config.RPC_URL (index.js:10).
RPC_URL == "http://default"

\* index.js:28: the default proposal, which is proposal 1 of the model's chain.
DEFAULT_PROPOSAL_ID == "1"

\* What the query string of a request can hold for proposal, rpc and view.
\* Undefined: the parameter is missing.
QueryProposals == {Undefined, "", "1", "2", "3", " 2 ", "abc", "1.5"}

QueryRpcs == {Undefined, "", "http://other"}

QueryViews == {Undefined, "notvoted"}

\* value || fallback, for a string or undefined.
OrElse(value, fallback) ==
  IF value = Undefined \/ value = "" THEN fallback ELSE value

\* BigInt(string): the integer the string spells (white space around it is
\* dropped), or a SyntaxError.
BigInt(string) ==
  CASE string = "1" -> [ok |-> TRUE, value |-> 1]
    [] string = "2" -> [ok |-> TRUE, value |-> 2]
    [] string = "3" -> [ok |-> TRUE, value |-> 3]
    [] string = " 2 " -> [ok |-> TRUE, value |-> 2]
    [] OTHER -> [ok |-> FALSE, value |-> 0]

\* Mutant of validateProposalId: what does not parse becomes 0 instead of an
\* error.
validateProposalId_Lenient(proposalId) ==
  IF proposalId = Undefined \/ proposalId = ""
  THEN [threw |-> TRUE, error |-> "Proposal ID is required", value |-> 0]
  ELSE [threw |-> FALSE, error |-> "none", value |-> BigInt(proposalId).value]

\* validateProposalId: the BigInt it returns or the error it throws.
validateProposalId(proposalId) ==
  IF proposalId = Undefined \/ proposalId = ""
  THEN [threw |-> TRUE, error |-> "Proposal ID is required", value |-> 0]
  ELSE IF BigInt(proposalId).ok
       THEN [threw |-> FALSE, error |-> "none", value |-> BigInt(proposalId).value]
       ELSE [threw |-> TRUE, error |-> "Invalid proposal ID format", value |-> 0]

\* The endpoint of the provider getVotingData creates (index.js:259) and of
\* the one generateNotVotedTable creates (index.js:1015).
getVotingDataProvider == RPC_URL

generateNotVotedTableProvider == RPC_URL

\* The operations of a request that are calls to the chain.
ChainOps ==
  {"proposalSnapshot", "getPastVotes", "getBlockNumber", "getLogs", "getBlock",
   "getVotes", "lookupAddress"}

\* The handler's locals after the catch block of lines 900-903.
Responded500(locals, error) ==
  [locals EXCEPT !.pc = "responded", !.status = 500, !.error = error]

\* app.get("/"), lines 436-439: the request arrives; the proposal id is
\* validated and the endpoint is chosen before the first await.
Receive(query) ==
  /\ handler.pc = "idle"
  /\ LET received == [handler EXCEPT !.query = query]
         validated == validateProposalId(OrElse(query.proposal, DEFAULT_PROPOSAL_ID))
     IN handler' =
          IF validated.threw THEN Responded500(received, validated.error)
          ELSE [received EXCEPT !.pc = "checkRPCStatus",
                                !.proposalId = validated.value,
                                !.rpcUrl = OrElse(query.rpc, RPC_URL)]
  /\ UNCHANGED << pipeline, call >>

\* Lines 440-445: checkRPCStatus probes the endpoint (a failed probe is
\* caught and is false), the view is read, getVotingData is called and runs
\* up to its first await.
CheckRPCStatus ==
  /\ handler.pc = "checkRPCStatus"
  /\ started < MaxStarted
  /\ \E active \in BOOLEAN :
       handler' = [handler EXCEPT
                     !.pc = "getVotingData",
                     !.rpcStatus = active,
                     !.viewFilter = OrElse(handler.query.view, "all"),
                     !.calls = @ \cup {[op |-> "getNetwork", url |-> handler.rpcUrl]}]
  /\ started' = started + 1
  /\ req' = [req EXCEPT ![started + 1] =
               [Idle EXCEPT !.pc = "getCachedData", !.proposalId = handler.proposalId]]
  /\ UNCHANGED << faults, now, ttlMs, headBlock, epoch, voteFile, snapshotFile,
                  firstSnapshot, lastWrite, call >>

\* Lines 445-899: getVotingData has settled.  Its error is answered with
\* status 500; its result is rendered, the not-voted table resolving the
\* name of every listed delegate.  calls records the chain calls of
\* getVotingData with the endpoint of its provider.
Render ==
  /\ handler.pc = "getVotingData"
  /\ req[started].pc \in {"done", "failed"}
  /\ LET r == req[started]
         read == [handler EXCEPT !.calls = @ \cup
                    {[op |-> op, url |-> getVotingDataProvider] : op \in r.ops \cap ChainOps}]
         tableData == IF handler.viewFilter = "notvoted"
                      THEN getNotVotedDelegates(r.result.delegateSnapshot, r.result.votes)
                      ELSE r.result.votes
     IN handler' =
          IF r.pc = "failed" THEN Responded500(read, r.error)
          ELSE [read EXCEPT
                  !.pc = "responded", !.status = 200,
                  !.calls = @ \cup
                    IF handler.viewFilter = "notvoted" /\ tableData # << >>
                    THEN {[op |-> "lookupAddress", url |-> generateNotVotedTableProvider]}
                    ELSE {}]
  /\ UNCHANGED << pipeline, call >>

HandlerNext ==
  \/ \E query \in [proposal : QueryProposals, rpc : QueryRpcs, view : QueryViews] :
       Receive(query)
  \/ CheckRPCStatus
  \/ \E r \in Requests : GetCachedData(r)
  \/ \E r \in Requests : ProposalSnapshot(r)
  \/ \E r \in Requests : ReadSnapshotFile(r)
  \/ \E r \in Requests : ComputeSnapshot(r)
  \/ \E r \in Requests : OpenSnapshotFile(r)
  \/ \E r \in Requests : WriteSnapshotFile(r)
  \/ \E r \in Requests : GetBlockNumber(r)
  \/ \E r \in Requests : GetLogs(r)
  \/ \E r \in Requests : Enrich(r)
  \/ \E r \in Requests : OpenVoteFile(r)
  \/ \E r \in Requests : WriteVoteFile(r)
  \/ Render

HandlerSpec == Init /\ [][HandlerNext]_vars

\* ------------------------------------------------------------------ claims

Proposal(r) == req[r].proposalId

\* The request's read of the vote file found a document.
FoundEntry(r) == req[r].cacheRead.status = "ok"

\* The request was answered from the vote cache.
Hit(r) == req[r].source = "cache"

\* C1: a getVotingData call that finds a vote-cache document that has not
\* expired (storedAt + TTL > now) returns the stored result, issues no chain
\* read and writes no cache file; the vote file is written only by a request
\* whose own cache check was a miss, so no request that comes after the write
\* rewrites the document before it expires.
C1_HitReads ==
  \A r \in Requests :
    /\ (FoundEntry(r) /\ req[r].cacheRead.margin < 0)
         => req[r].pc = "done" /\ Hit(r) /\ req[r].ops = {}
    /\ ("writeVoteFile" \in req[r].ops)
         => /\ ~Hit(r)
            /\ req[r].cacheRead.status \in {"ENOENT", "ok"}
            /\ FoundEntry(r) => req[r].cacheRead.margin >= 0

C1_HitStep ==
  \A r \in Requests :
    (req[r].pc = "getCachedData" /\ req'[r].pc = "done")
      => /\ voteFile[Proposal(r)].kind = "json"
         /\ req'[r].result = voteFile[Proposal(r)].content.data
         /\ voteFile' = voteFile
         /\ snapshotFile' = snapshotFile

C1_CacheHitServesStoredResult == [] C1_HitReads /\ [][C1_HitStep]_vars

C1_Witness ==
  \E r \in Requests :
    req[r].pc = "done" /\ Hit(r) /\ req[r].result.votes # << >>

\* C2, as stated: whenever storedAt + TTL <= now, the boundary
\* now = storedAt + TTL included, the read is a miss.
C2_MissFromBoundaryOn ==
  \A r \in Requests : (FoundEntry(r) /\ req[r].cacheRead.margin >= 0) => ~Hit(r)

\* C2, amended: the read of a stored document is a hit exactly if
\* storedAt + TTL >= now; it is a miss exactly if storedAt + TTL < now, so at
\* now = storedAt + TTL it is still a hit.
C2_HitIffNotPastExpiry ==
  \A r \in Requests : FoundEntry(r) => (Hit(r) <=> req[r].cacheRead.margin <= 0)

C2_Witness ==
  \E r \in Requests : FoundEntry(r) /\ req[r].cacheRead.margin = 0 /\ Hit(r)

\* C3: a document written at T is a hit for a read at T + TTL - 1 and a miss
\* for a read at T + TTL + 1.
C3_HitBeforeMissAfter ==
  \A r \in Requests :
    FoundEntry(r) =>
      /\ (req[r].cacheRead.margin = -1) => (Hit(r) /\ req[r].pc = "done")
      /\ (req[r].cacheRead.margin = 1) => ~Hit(r)

C3_Witness ==
  \E r \in Requests :
    FoundEntry(r) /\ req[r].cacheRead.margin = 1 /\ ~Hit(r)
    /\ "proposalSnapshot" \in req[r].ops

\* C4: a read of the snapshot file that finds a stored snapshot returns it,
\* however long ago it was written: no roster read, no voting-power query and
\* no write of the snapshot file follow in that request.
C4_SnapshotHitReads ==
  \A r \in Requests :
    req[r].snapshotRead = "ok"
      => /\ req[r].ops \cap {"loadDelegates", "getPastVotes", "writeSnapshotFile"} = {}
         /\ req[r].pc \notin {"readSnapshotFile", "computeSnapshot",
                              "openSnapshotFile", "writeSnapshotFile"}

C4_SnapshotHitStep ==
  \A r \in Requests :
    (/\ req[r].pc = "readSnapshotFile"
     /\ snapshotFile[Proposal(r)].kind = "json"
     /\ req'[r].pc \notin {"readSnapshotFile", "gone"}
     /\ req'[r].error # "EACCES")
      => /\ req'[r].snapshotRead = "ok"
         /\ req'[r].pc = "getBlockNumber"
         /\ req'[r].delegatesAtSnapshot = snapshotFile[Proposal(r)].content
         /\ snapshotFile' = snapshotFile

C4_SnapshotHitWheneverStored == [] C4_SnapshotHitReads /\ [][C4_SnapshotHitStep]_vars

\* The snapshot was read by a request for which the vote-cache document of
\* the same proposal, which is younger than the snapshot, had expired.
C4_Witness ==
  \E r \in Requests :
    /\ req[r].snapshotRead = "ok"
    /\ FoundEntry(r) /\ req[r].cacheRead.margin > 0
    /\ req[r].delegatesAtSnapshot # << >>

\* C5, as stated: every delegateSnapshot returned for P equals the first
\* snapshot stored for P.
C5_SnapshotNeverChanges ==
  \A r \in Requests :
    (req[r].pc = "done" /\ firstSnapshot[Proposal(r)].stored)
      => req[r].result.delegateSnapshot = firstSnapshot[Proposal(r)].snapshot

\* C6, as stated: no request is answered from a vote-cache document or a
\* snapshot written before the last startup.
C6_NothingServedFromBeforeStartup ==
  \A r \in Requests : \A writtenIn \in req[r].served : writtenIn = epoch

\* The steps of getVotingData at which a failure of the cache files or of the
\* head-block read is thrown on to the caller.
FatalSteps == {"readSnapshotFile", "openSnapshotFile", "getBlockNumber", "openVoteFile"}

\* The request has resolved a snapshot block and no log it fetched matches.
NoMatch(r) == req[r].snapshotBlock # 0 /\ req[r].allEvents = << >>

\* C7, as stated: once the snapshot block has resolved, a request with no
\* matching log never fails.
C7_NeverFailsWithoutVotes ==
  \A r \in Requests : NoMatch(r) => req[r].pc # "failed"

\* C7, amended: once the snapshot block has resolved, a request with no
\* matching log that builds its result returns an empty votes sequence and
\* the delegate snapshot; a failed chunk fetch, roster load or voting-power
\* query does not make it fail; it fails only if the read or write of the
\* snapshot file, the head-block read or the write of the vote file fails.
C7_EmptyVotesUnlessFatalStep ==
  \A r \in Requests :
    NoMatch(r) =>
      /\ (req[r].pc = "failed") => (req[r].failedAt \in FatalSteps)
      /\ (req[r].pc = "done" /\ req[r].source = "built")
           => /\ req[r].result.votes = << >>
              /\ req[r].result.delegateSnapshot = req[r].delegatesAtSnapshot
              /\ req[r].result.snapshotBlock = proposalSnapshot(Proposal(r))

\* A request whose first chunk failed and whose second chunk held only logs
\* of another proposal returned a result.
C7_Witness ==
  \E r \in Requests :
    /\ NoMatch(r) /\ req[r].pc = "done" /\ req[r].source = "built"
    /\ req[r].failedChunks = {DEFAULT_START_BLOCK}
    /\ req[r].currentBlock > DEFAULT_START_BLOCK + CHUNK_SIZE
    /\ req[r].result.delegateSnapshot # << >>

\* C8: for a proposal whose snapshot block is zero, getVotingData throws
\* proposal-not-found having issued nothing but the proposalSnapshot call,
\* and neither cache file of that proposal is ever written.
C8_ProposalNotFound ==
  /\ \A r \in Requests :
       (/\ proposalSnapshot(Proposal(r)) = 0
        /\ "proposalSnapshot" \in req[r].ops
        /\ req[r].error # "RpcError")
         => /\ req[r].pc = "failed"
            /\ req[r].error = "ProposalNotFound"
            /\ req[r].ops = {"proposalSnapshot"}
  /\ \A p \in ProposalIds :
       proposalSnapshot(p) = 0 => voteFile[p] = Absent /\ snapshotFile[p] = Absent

C8_Witness ==
  \E r \in Requests : req[r].pc = "failed" /\ req[r].error = "ProposalNotFound"

\* The first blocks of the chunks a scan up to currentBlock requests.
ChunkStarts(currentBlock) ==
  {from \in DEFAULT_START_BLOCK..currentBlock :
     from < currentBlock /\ (from - DEFAULT_START_BLOCK) % CHUNK_SIZE = 0}

\* The logs of proposalId in the chunks of starts, in block order.
EventsOfChunks(proposalId, currentBlock, starts) ==
  SelectSeq(VoteCastLogs,
            LAMBDA log :
              /\ log.proposalId = proposalId
              /\ \E from \in starts :
                   /\ from <= log.blockNumber
                   /\ log.blockNumber < from + CHUNK_SIZE
                   /\ log.blockNumber <= currentBlock)

\* The scan loop of the request is over.
Scanned(r) ==
  \/ req[r].pc \in {"enrich", "openVoteFile", "writeVoteFile"}
  \/ req[r].pc = "done" /\ req[r].source = "built"
  \/ req[r].pc = "failed" /\ req[r].failedAt \in {"enrich", "openVoteFile"}

\* C9: a chunk whose fetch fails does not fail the scan, and the scan's result
\* holds every matching event of every other chunk.
C9_ChunkFailureTolerated ==
  \A r \in Requests :
    /\ req[r].failedAt # "getLogs"
    /\ Scanned(r) =>
         req[r].allEvents =
           EventsOfChunks(Proposal(r), req[r].currentBlock,
                          ChunkStarts(req[r].currentBlock) \ req[r].failedChunks)

C9_Witness ==
  \E r \in Requests :
    Scanned(r) /\ req[r].failedChunks # {} /\ req[r].allEvents # << >>

\* C10, as stated: two requests for the same uncached proposal, with no
\* operation of the environment failing, both return a result, and the vote
\* file then holds the cacheObject of the one that wrote last.
C10_BothSucceedLastWriterWins ==
  \A r1, r2 \in Requests :
    (/\ r1 < r2 /\ Proposal(r1) = Proposal(r2)
     /\ proposalSnapshot(Proposal(r1)) # 0
     /\ faults = 0 /\ epoch = 0
     /\ req[r1].pc \in {"done", "failed"} /\ req[r2].pc \in {"done", "failed"}
     /\ ~Hit(r1) /\ ~Hit(r2))
      => /\ req[r1].pc = "done" /\ req[r2].pc = "done"
         /\ lastWrite[Proposal(r1)] \in {r1, r2}
         /\ voteFile[Proposal(r1)].kind = "json"
         /\ voteFile[Proposal(r1)].content =
              cacheObject(req[lastWrite[Proposal(r1)]].result,
                          req[lastWrite[Proposal(r1)]].timestamp)

\* The request has run the snapshot computation (roster read, one voting-power
\* query per delegate, ranking) in the current run of the process.
Computed(r) == "loadDelegates" \in req[r].ops

\* C11, as stated: within one run of the process, no two requests for the
\* same proposal both run the delegate-snapshot computation.
C11_SnapshotComputedOnce ==
  \A r1, r2 \in Requests :
    (r1 < r2 /\ Proposal(r1) = Proposal(r2) /\ Computed(r1)) => ~Computed(r2)

\* What the enrichment of the request's events did.
LookupFailed(r) == {i \in DOMAIN req[r].enriched : req[r].enriched[i] = "lookupAddressFailed"}

FetchFailed(r) ==
  {i \in DOMAIN req[r].enriched : req[r].enriched[i] \in {"getBlockFailed", "getVotesFailed"}}

\* The votes of the events whose indices are in kept, in event order.
RECURSIVE VotesOf(_, _, _)
VotesOf(r, i, kept) ==
  IF i > Len(req[r].allEvents) THEN << >>
  ELSE (IF i \in kept
        THEN << enrich(req[r].allEvents[i], req[r].snapshotBlock, i \in LookupFailed(r)) >>
        ELSE << >>) \o VotesOf(r, i + 1, kept)

\* C12, as stated: when the getBlock or getVotes call of one event fails, the
\* failure does not reach the caller and the result holds the votes of all
\* the other events.
C12_FailedEventSkipped ==
  \A r \in Requests :
    FetchFailed(r) # {} =>
      /\ req[r].pc # "failed"
      /\ req[r].source = "built"
      /\ req[r].result.votes =
           VotesOf(r, 1, DOMAIN req[r].enriched \ FetchFailed(r))

\* C13: when lookupAddress fails for a voter and no other call of the
\* enrichment fails, the enrichment does not fail, every matched event has
\* its vote in the result, and the display identity of that vote is the raw
\* voter address without a name.
C13_NameFailureNotFatal ==
  \A r \in Requests :
    (LookupFailed(r) # {} /\ FetchFailed(r) = {}) =>
      /\ req[r].failedAt # "enrich"
      /\ req[r].source = "built"
      /\ Len(req[r].result.votes) = Len(req[r].allEvents)
      /\ \A i \in LookupFailed(r) :
           /\ req[r].result.votes[i].delegate.address = req[r].allEvents[i].voter
           /\ req[r].result.votes[i].delegate.ensName = "null"
           /\ req[r].result.votes[i].vote = voteOf(req[r].allEvents[i].support)

\* The lookup failed for a voter who has a primary name, and the request
\* returned its result.
C13_Witness ==
  \E r \in Requests :
    /\ req[r].pc = "done"
    /\ \E i \in LookupFailed(r) : lookupAddress(req[r].allEvents[i].voter) # "null"

\* The addresses of the entries of a snapshot.
AddressesOf(snapshot) == {snapshot[i].address : i \in DOMAIN snapshot}

\* The request has computed a snapshot, having queried the roster's delegates.
Queried(r) == "getPastVotes" \in req[r].ops

\* C14: a snapshot computed with some voting-power queries failing holds
\* exactly one entry for each delegate whose query succeeded and none for the
\* others, and the computation itself does not fail.
C14_FailedDelegatesDropped ==
  \A r \in Requests :
    Queried(r) =>
      /\ AddressesOf(req[r].delegatesAtSnapshot) = req[r].roster \ req[r].failedDelegates
      /\ Len(req[r].delegatesAtSnapshot) = Cardinality(req[r].roster \ req[r].failedDelegates)
      /\ req[r].failedAt # "computeSnapshot"
      /\ req[r].pc # "computeSnapshot"

\* A snapshot built with one query failed was stored and returned.
C14_Witness ==
  \E r \in Requests :
    /\ Queried(r) /\ req[r].failedDelegates # {}
    /\ req[r].delegatesAtSnapshot # << >>
    /\ req[r].pc = "done"
    /\ req[r].result.delegateSnapshot = req[r].delegatesAtSnapshot

\* calculateVoteStats has been applied and has returned.
StatsReturned == call.fn = "calculateVoteStats" /\ call.pc = "returned"

\* The permutations of 1..n, and a sequence rearranged by one.
Perms(n) == {f \in [1..n -> 1..n] : \A i, j \in 1..n : i # j => f[i] # f[j]}

Permuted(votes, perm) == [i \in DOMAIN votes |-> votes[perm[i]]]

\* The fields of the statistics the order of the votes must not change.
Aggregates(stats) ==
  << stats.forCount, stats.againstCount, stats.abstainCount,
     stats.forVotes, stats.againstVotes, stats.abstainVotes,
     stats.quorumVotes, stats.hasReachedQuorum, stats.votesNeededForQuorum >>

\* C17, as stated: the counts, the summed weights and the quorum fields that
\* calculateVoteStats returns for a vote sequence are those it returns for
\* every permutation of the sequence.
C17_StatsOrderIndependent ==
  StatsReturned =>
    \A perm \in Perms(Len(call.votes)) :
      Aggregates(calculateVoteStats([votes |-> Permuted(call.votes, perm)]))
        = Aggregates(call.returned)

\* The weights of the votes of one choice, added up in the order of the votes.
RECURSIVE SumWeights(_, _)
SumWeights(votes, sum) ==
  IF votes = << >> THEN sum
  ELSE SumWeights(Tail(votes), fadd(sum, parseFloat(Head(votes).weight)))

VotesFor(votes) == SelectSeq(votes, LAMBDA v : v.vote = "For")

VotesAgainst(votes) == SelectSeq(votes, LAMBDA v : v.vote = "Against")

VotesAbstain(votes) == SelectSeq(votes, LAMBDA v : v.vote \notin {"For", "Against"})

\* C18: quorumVotes is the summed weight of the For votes plus the summed
\* weight of the Abstain votes (sums and plus being those of JavaScript
\* numbers), and it is what calculateVoteStats returns for the same votes
\* without the Against votes.
C18_QuorumIsForPlusAbstain ==
  StatsReturned =>
    /\ call.returned.quorumVotes =
         fadd(SumWeights(VotesFor(call.votes), 0),
              SumWeights(VotesAbstain(call.votes), 0))
    /\ call.returned.quorumVotes = fadd(call.returned.forVotes, call.returned.abstainVotes)
    /\ call.returned.quorumVotes =
         calculateVoteStats(
           [votes |-> SelectSeq(call.votes, LAMBDA v : v.vote # "Against")]).quorumVotes

\* Statistics of a For vote, an Abstain vote and an Against vote.
C18_Witness ==
  /\ StatsReturned
  /\ VotesFor(call.votes) # << >> /\ VotesAbstain(call.votes) # << >>
  /\ call.returned.againstVotes > 0
  /\ call.returned.quorumVotes < call.returned.totalWeight

\* C19: hasReachedQuorum is quorumVotes >= the threshold, votesNeededForQuorum
\* is max(0, threshold - quorumVotes), it is 0 exactly when the quorum is
\* reached, and it is never negative.
C19_QuorumFields ==
  StatsReturned =>
    LET stats == call.returned
    IN /\ stats.hasReachedQuorum <=> (stats.quorumVotes >= QUORUM_VOTES * UNIT)
       /\ stats.votesNeededForQuorum = Max(0, fsub(QUORUM_VOTES * UNIT, stats.quorumVotes))
       /\ (stats.votesNeededForQuorum = 0) <=> stats.hasReachedQuorum
       /\ stats.votesNeededForQuorum >= 0

\* Statistics whose quorumVotes is the threshold itself.
C19_Witness ==
  /\ StatsReturned
  /\ call.returned.quorumVotes = QUORUM_VOTES * UNIT
  /\ call.returned.hasReachedQuorum
  /\ call.returned.votesNeededForQuorum = 0

\* getNotVotedDelegates has been applied and has returned.
NotVotedReturned == call.fn = "getNotVotedDelegates" /\ call.pc = "returned"

\* The addresses of the voters of the votes.
VoterAddresses(votes) == {toLowerCase(votes[i].delegate.address) : i \in DOMAIN votes}

\* The entries of the snapshot that the claim lists: not a voter's address, at
\* or above the floor, not the excluded address.
ExpectedNotVoted(snapshot, votes) ==
  {snapshot[i] : i \in {j \in DOMAIN snapshot :
     /\ toLowerCase(snapshot[j].address) \notin VoterAddresses(votes)
     /\ snapshot[j].actualVotingPower >= SIGNIFICANT_POWER
     /\ toLowerCase(snapshot[j].address) # EXCLUDED_ADDRESS}}

\* C20, as stated: getNotVotedDelegates returns exactly the snapshot entries
\* whose address is not the address of any vote, whose power is at or above
\* the floor and whose address is not excluded, in descending order of power.
C20_NotVotedExactly ==
  NotVotedReturned =>
    LET expected == ExpectedNotVoted(call.delegateSnapshot, call.votes)
    IN /\ {call.returned[i] : i \in DOMAIN call.returned} = expected
       /\ Len(call.returned) = Cardinality(expected)
       /\ \A i, j \in DOMAIN call.returned :
            i < j => call.returned[i].actualVotingPower >= call.returned[j].actualVotingPower

\* The handler has received a request whose proposal parameter is this.
Received == handler.pc # "idle"

Unparseable(raw) == raw \notin {Undefined, ""} /\ ~BigInt(raw).ok

\* The request was rejected before any probe, any chain read and any access
\* to a cache file.
RejectedUntouched ==
  /\ handler.pc = "responded" /\ handler.status = 500
  /\ handler.calls = {}
  /\ started = 0
  /\ \A r \in Requests : req[r] = Idle
  /\ \A p \in ProposalIds : voteFile[p] = Absent /\ snapshotFile[p] = Absent

\* C15, as stated: a request whose proposal id is missing, empty or not
\* parseable is rejected with an invalid-proposal-id error before any chain
\* or cache access.
C15_MissingOrInvalidRejected ==
  (Received /\ (handler.query.proposal \in {Undefined, ""}
                \/ Unparseable(handler.query.proposal)))
    => /\ RejectedUntouched
       /\ handler.error \in {"Invalid proposal ID format", "Proposal ID is required"}

\* C15, amended: a request whose proposal id is present and not parseable as
\* an integer is rejected with the invalid-format error before any chain or
\* cache access; a request whose proposal id is missing or empty is not
\* rejected for it: it is served for the default proposal.
C15_InvalidRejectedMissingDefaulted ==
  /\ (Received /\ Unparseable(handler.query.proposal))
       => RejectedUntouched /\ handler.error = "Invalid proposal ID format"
  /\ (Received /\ handler.query.proposal \in {Undefined, ""})
       => /\ handler.proposalId = BigInt(DEFAULT_PROPOSAL_ID).value
          /\ handler.error \notin {"Invalid proposal ID format", "Proposal ID is required"}
          /\ handler.pc # "checkRPCStatus" => req[1].proposalId = handler.proposalId

C15_Witness ==
  /\ handler.pc = "responded"
  /\ handler.query.proposal = "1.5"
  /\ handler.error = "Invalid proposal ID format"

\* C16, as stated: when the request supplies an endpoint, the probe and every
\* chain read made while serving the request go to that endpoint.
C16_SuppliedEndpointUsed ==
  handler.query.rpc \notin {Undefined, ""}
    => \A c \in handler.calls : c.url = handler.query.rpc

\* The entries getNotVotedDelegates returned.
Listed == {call.returned[i] : i \in DOMAIN call.returned}

\* C21, as stated: a snapshot entry whose address is, letter case aside, the
\* address of the voter of some vote is never in the not-voted result, and
\* neither is an entry whose address is, letter case aside, the excluded one.
C21_ComparisonIgnoresCase ==
  NotVotedReturned =>
    \A i \in DOMAIN call.delegateSnapshot :
      LET entry == call.delegateSnapshot[i]
      IN /\ (\E j \in DOMAIN call.votes :
               toLowerCase(call.votes[j].delegate.address) = toLowerCase(entry.address))
              => entry \notin Listed
         /\ (toLowerCase(entry.address) = toLowerCase(EXCLUDED_ADDRESS))
              => entry \notin Listed

\* The currentRank a snapshot assigns to each address.
RanksOf(snapshot) ==
  {<< snapshot[i].address, snapshot[i].currentRank >> : i \in DOMAIN snapshot}

\* The request has computed a snapshot and its write of the snapshot file is
\* complete.
WroteSnapshot(r) ==
  /\ Computed(r)
  /\ "writeSnapshotFile" \in req[r].ops
  /\ req[r].pc \notin {"openSnapshotFile", "writeSnapshotFile"}
  /\ req[r].failedAt # "openSnapshotFile"

\* Two requests have built the snapshot of the same proposal at the same
\* snapshot block from the same roster (the chain of the model answers every
\* query of a block alike).
BuiltTwice(r1, r2) ==
  /\ r1 < r2 /\ Proposal(r1) = Proposal(r2)
  /\ Computed(r1) /\ Computed(r2)
  /\ req[r1].snapshotBlock = req[r2].snapshotBlock
  /\ req[r1].roster = req[r2].roster

\* C22, as stated: two builds of the snapshot of one proposal, from the same
\* roster and the same chain state, assign the same currentRank to every
\* delegate, and once both have written the snapshot file it holds that one
\* snapshot.
C22_RebuildIdentical ==
  \A r1, r2 \in Requests :
    BuiltTwice(r1, r2) =>
      /\ RanksOf(req[r1].delegatesAtSnapshot) = RanksOf(req[r2].delegatesAtSnapshot)
      /\ (WroteSnapshot(r1) /\ WroteSnapshot(r2))
           => /\ snapshotFile[Proposal(r1)].kind = "json"
              /\ snapshotFile[Proposal(r1)].content = req[r1].delegatesAtSnapshot
              /\ snapshotFile[Proposal(r1)].content = req[r2].delegatesAtSnapshot

\* The enrichment callback has been applied to an event, and
\* calculateVoteStats to the vote it returned.
Enriched == call.fn = "enrich" /\ call.pc = "returned"

Choices == {"Against", "For", "Abstain"}

\* C23, as stated: support 0, 1 and 2 yield Against, For and Abstain, and any
\* other support value yields no vote that carries one of the three choices
\* and is counted under none of them.
C23_OtherSupportIsNoChoice ==
  Enriched =>
    LET support == call.event.support
        stats == call.returned
    IN /\ support = 0 => call.votes[1].vote = "Against"
       /\ support = 1 => call.votes[1].vote = "For"
       /\ support = 2 => call.votes[1].vote = "Abstain"
       /\ support \notin {0, 1, 2} =>
            /\ \A i \in DOMAIN call.votes : call.votes[i].vote \notin Choices
            /\ stats.forCount = 0 /\ stats.againstCount = 0 /\ stats.abstainCount = 0
            /\ stats.forVotes = 0 /\ stats.againstVotes = 0 /\ stats.abstainVotes = 0

\* The blocks of a chunk.
BlocksOf(chunk) == chunk.fromBlock..chunk.toBlock

\* C24, as stated: when the scan starts below the head, the chunks it has
\* requested are pairwise disjoint, hold at most CHUNK_SIZE blocks each, and
\* together cover every block from the start block to the head, the head
\* included.
C24_ChunksPartitionRange ==
  \A r \in Requests :
    (Scanned(r) /\ DEFAULT_START_BLOCK < req[r].currentBlock) =>
      LET chunks == req[r].chunks
      IN /\ \A i, j \in DOMAIN chunks :
              i # j => BlocksOf(chunks[i]) \cap BlocksOf(chunks[j]) = {}
         /\ \A i \in DOMAIN chunks : Cardinality(BlocksOf(chunks[i])) <= CHUNK_SIZE
         /\ UNION {BlocksOf(chunks[i]) : i \in DOMAIN chunks}
              = DEFAULT_START_BLOCK..req[r].currentBlock

\* The first blocks of the chunks the request has requested, in the order of
\* the requests.
FromBlocks(r) == [i \in DOMAIN req[r].chunks |-> req[r].chunks[i].fromBlock]

\* Every chunk of the scan so far was requested once, in ascending order: the
\* i-th request is for the chunk that starts (i - 1) * CHUNK_SIZE above the
\* start block; a failed chunk is one of them; when the scan is over the
\* chunks requested are all the chunks of the loop.
C25_EachChunkOnceAscending ==
  \A r \in Requests :
    /\ \A i \in DOMAIN req[r].chunks :
         FromBlocks(r)[i] = DEFAULT_START_BLOCK + (i - 1) * CHUNK_SIZE
    /\ req[r].failedChunks \subseteq {FromBlocks(r)[i] : i \in DOMAIN req[r].chunks}
    /\ Scanned(r) =>
         {FromBlocks(r)[i] : i \in DOMAIN req[r].chunks} = ChunkStarts(req[r].currentBlock)

\* A step of the scan requests one chunk, the next one, and completes its
\* fetch, failed or not, before the scan goes on: the request it leaves behind
\* has moved its fromBlock beyond that chunk.
C25_OneChunkPerStep ==
  \A r \in Requests :
    (req[r].pc = "getLogs" /\ req'[r] # req[r] /\ req'[r].pc # "gone") =>
      /\ Len(req'[r].chunks) = Len(req[r].chunks) + 1
      /\ req'[r].chunks[Len(req'[r].chunks)].fromBlock = req[r].fromBlock
      /\ req'[r].fromBlock = req[r].fromBlock + CHUNK_SIZE
      /\ req'[r].pc \in {"getLogs", "enrich"}
      /\ \A q \in Requests : q # r => req'[q] = req[q]

\* C25: within one scan every chunk is requested exactly once, whether its
\* fetch succeeds or fails, in ascending block order, one after the other.
C25_SequentialNoRetry == [] C25_EachChunkOnceAscending /\ [][C25_OneChunkPerStep]_vars

\* A scan of two chunks whose first fetch failed has ended.
C25_Witness ==
  \E r \in Requests :
    /\ Scanned(r)
    /\ Len(req[r].chunks) = 2
    /\ req[r].failedChunks = {DEFAULT_START_BLOCK}

\* The chunks whose fetch succeeded, in the order of their requests.
FetchedChunks(r) ==
  SelectSeq(req[r].chunks, LAMBDA chunk : chunk.fromBlock \notin req[r].failedChunks)

\* The logs of the chain that lie in the chunks and belong to the proposal,
\* chunk after chunk, in the order of the chain within a chunk.
RECURSIVE LogsOfProposalIn(_, _)
LogsOfProposalIn(chunks, proposalId) ==
  IF chunks = << >> THEN << >>
  ELSE SelectSeq(VoteCastLogs,
                 LAMBDA log : /\ log.blockNumber \in BlocksOf(Head(chunks))
                              /\ log.proposalId = proposalId)
       \o LogsOfProposalIn(Tail(chunks), proposalId)

\* The events collected are the logs of the requested proposal in the chunks
\* fetched so far, in discovery order; the votes of a result the request has
\* built are the records of these events, one for one and in that order.
C26_CollectedAreMatchingLogs ==
  \A r \in Requests :
    /\ req[r].allEvents = LogsOfProposalIn(FetchedChunks(r), Proposal(r))
    /\ \A i \in DOMAIN req[r].allEvents : req[r].allEvents[i].proposalId = Proposal(r)
    /\ req[r].source = "built" =>
         /\ Len(req[r].result.votes) = Len(req[r].allEvents)
         /\ \A i \in DOMAIN req[r].allEvents :
              req[r].result.votes[i] =
                enrich(req[r].allEvents[i], req[r].snapshotBlock, i \in LookupFailed(r))

\* The scan only appends to the events collected.
C26_EventsOnlyAppended ==
  \A r \in Requests :
    (req[r].pc = "getLogs" /\ req'[r].pc # "gone") =>
      /\ Len(req'[r].allEvents) >= Len(req[r].allEvents)
      /\ SubSeq(req'[r].allEvents, 1, Len(req[r].allEvents)) = req[r].allEvents

\* C26: the events of the scan are exactly the logs of successfully fetched
\* chunks whose proposal id is the requested one, in discovery order, and no
\* log of another proposal becomes a vote of the result.
C26_LocalFilterByProposal ==
  [] C26_CollectedAreMatchingLogs /\ [][C26_EventsOnlyAppended]_vars

\* A result was built from matching logs of two chunks, one of which also held
\* a log of another proposal.
C26_Witness ==
  \E r \in Requests :
    /\ req[r].pc = "done" /\ req[r].source = "built"
    /\ Len(req[r].result.votes) = 2
    /\ req[r].failedChunks = {}
    /\ \E i \in DOMAIN VoteCastLogs :
         /\ VoteCastLogs[i].proposalId # Proposal(r)
         /\ \E j \in DOMAIN req[r].chunks : VoteCastLogs[i].blockNumber \in BlocksOf(req[r].chunks[j])

\* The snapshot computation has been applied to a roster and has returned.
SnapshotReturned == call.fn = "getDelegateSnapshot" /\ call.pc = "returned"

\* The position of the delegate of an address in the roster.
RosterIndex(address) ==
  CHOOSE i \in DOMAIN call.delegates : call.delegates[i].address = address

\* The delegates of the roster whose query did not fail.
Survivors == {i \in DOMAIN call.delegates : call.delegates[i].address \notin call.failed}

\* C27: a built snapshot holds the surviving delegates in order of
\* non-increasing actualVotingPower, delegates of equal power in roster order;
\* currentRank is the 1-based position, so the ranks are 1..n, each once; and
\* rankChange is the roster's rank minus currentRank.
C27_SortedStableRanked ==
  SnapshotReturned =>
    LET snapshot == call.returned
        n == Len(snapshot)
    IN /\ n = Cardinality(Survivors)
       /\ {snapshot[i].address : i \in 1..n} = {call.delegates[i].address : i \in Survivors}
       /\ \A i, j \in 1..n :
            i < j =>
              /\ snapshot[i].actualVotingPower >= snapshot[j].actualVotingPower
              /\ snapshot[i].actualVotingPower = snapshot[j].actualVotingPower
                   => RosterIndex(snapshot[i].address) < RosterIndex(snapshot[j].address)
       /\ \A i \in 1..n :
            /\ snapshot[i].currentRank = i
            /\ snapshot[i].rank = call.delegates[RosterIndex(snapshot[i].address)].rank
            /\ snapshot[i].rankChange = snapshot[i].rank - snapshot[i].currentRank
       /\ {snapshot[i].currentRank : i \in 1..n} = 1..n

\* A snapshot of three delegates, two of equal power of which the one the
\* roster names first has the higher prior rank number.
C27_Witness ==
  /\ SnapshotReturned
  /\ Len(call.returned) = 3
  /\ call.returned[2].actualVotingPower = call.returned[3].actualVotingPower
  /\ call.returned[2].rank > call.returned[3].rank
  /\ call.returned[3].rankChange < 0

\* The steps of getVotingData that come before cacheData.
StepsBeforeCacheData ==
  {"getCachedData", "proposalSnapshot", "readSnapshotFile", "computeSnapshot",
   "openSnapshotFile", "writeSnapshotFile", "getBlockNumber", "getLogs", "enrich"}

\* A call that has failed before cacheData has not opened a vote file.
C28_FailedCallWroteNothing ==
  \A r \in Requests :
    (req[r].pc = "failed" /\ req[r].failedAt \in StepsBeforeCacheData)
      => "writeVoteFile" \notin req[r].ops

\* No step of a call before cacheData, the step that fails included, changes
\* the vote file of any proposal: what the call's cache check found, an
\* expired document too, stays as it is.
C28_StepLeavesVoteFiles ==
  \A r \in Requests :
    (/\ req[r].pc \in StepsBeforeCacheData
     /\ req'[r] # req[r]
     /\ req'[r].pc # "gone")
      => voteFile' = voteFile

\* C28: a getVotingData call that fails at the snapshot resolution, the
\* snapshot build, the head-block read or the enrichment changes the vote
\* file of no proposal.
C28_FailureLeavesVoteCache == [] C28_FailedCallWroteNothing /\ [][C28_StepLeavesVoteFiles]_vars

\* A call that found an expired document has failed in the enrichment, and
\* the expired document is still in place.
C28_Witness ==
  \E r \in Requests :
    /\ req[r].pc = "failed" /\ req[r].failedAt = "enrich"
    /\ FoundEntry(r) /\ req[r].cacheRead.margin > 0
    /\ voteFile[Proposal(r)].kind = "json"
    /\ isExpired(voteFile[Proposal(r)].content, now)

\* The request ran the first build of its proposal's snapshot that was
\* stored, and the voting-power query of some delegate failed in it.
FirstBuildDropped(r) ==
  /\ WroteSnapshot(r)
  /\ req[r].failedDelegates # {}
  /\ firstSnapshot[Proposal(r)].stored
  /\ firstSnapshot[Proposal(r)].snapshot = req[r].delegatesAtSnapshot

\* C29, as stated: a delegate dropped from the snapshot of a proposal in the
\* first build, which was stored, is in the delegateSnapshot of no result
\* returned for that proposal in the same run of the process.
C29_DroppedStaysAbsent ==
  \A r1, r2 \in Requests :
    (/\ FirstBuildDropped(r1)
     /\ Proposal(r2) = Proposal(r1)
     /\ req[r2].pc = "done")
      => AddressesOf(req[r2].result.delegateSnapshot) \cap req[r1].failedDelegates = {}

====
